---- MODULE Spec2Model ----
(***************************************************************************)
(* A model of the Grid class of gameoflife.py (Conway's Game of Life on a  *)
(* toroidal grid).  One Grid instance is modelled: its attributes, the     *)
(* position of a running run() loop, the last thing printed and the        *)
(* exception that ended the program, if any.  An exception that leaves a   *)
(* method is never caught by the program (main catches only OSError), so   *)
(* after one the instance takes no further step.                           *)
(* The elementary automaton of one_dimension.py, a program of its own, is  *)
(* modelled beside it in one variable.                                     *)
(***************************************************************************)
EXTENDS Integers, Sequences, FiniteSets, TLC

VARIABLES
    ctor,               \* the arguments the constructor was called with
    height, width,      \* self.height, self.width
    grid,               \* self.grid: row index -> column index -> cell
    born, survive,      \* self.born, self.survive: lists of integers
    neighbourhood_type, \* self.neighbourhood_type
    pc,                 \* position of run(): idle, iterate, print, check, stopped;
                        \* update while update_grid is followed cell by cell
    niter,              \* the niter argument of the current run (None or an int)
    iters,              \* iterations of the for loop of run(niter) started so far
    out,                \* the last thing printed to the terminal
    err,                \* the exception that ended the program, or "none"
    op, arg,            \* history: the last public method called and its argument
    old,                \* history: self.grid before the last update_grid or seeding
    base, gen,          \* history: the grid at the last seeding, construction or run
                        \*          call, and the update_grid calls made since
    calls,              \* history: number of public methods called so far
    ret,                \* the value returned by the last get_rules, __str__ or
                        \* all_dead_or_alive call
    token_grid,         \* token_grid of an update_grid call in progress
    assigned,           \* cells of token_grid that call has assigned so far
    one_dimension       \* the locals of main() of one_dimension.py

vars == <<ctor, height, width, grid, born, survive, neighbourhood_type,
          pc, niter, iters, out, err, op, arg, old, base, gen, calls,
          ret, token_grid, assigned, one_dimension>>

(***************************************************************************)
(* Bounds of the model.                                                    *)
(***************************************************************************)
MaxDim == 6         \* largest width/height given to the constructor
FullCells == 9      \* random grids of up to this many cells are all enumerated
MaxPat == 5         \* largest height/width of an array given to centre_grid
MaxCentreDim == 11  \* largest width/height of a grid that is only seeded
MaxUpdates == 1     \* update_grid calls on a grid of any content
MaxConfigCalls == 3 \* methods called on an instance that is being configured
MaxSeedCalls == 2   \* methods called on an instance that is being seeded
MaxRunCalls == 3    \* methods called on an instance that is run
MaxIter == 3        \* largest niter given to run
MaxGliderDim == 9   \* largest width/height of the grid a glider is followed on
MaxPasses == 1      \* update_grid calls that are followed cell by cell
MaxQueryCalls == 2  \* methods called on an instance that is rendered
MaxRuleCalls == 3   \* set_rules and get_rules calls on an instance
MaxNiter == 4       \* largest niter given to one_dimension.py
MaxGen == MaxIter + 2   \* gen counts update_grid calls up to here

MinDim == 5         \* "Please choose a bigger grid, at least 5x5."
Border == 2         \* "Take two off of each, to account for the border"
MaxRule == 255      \* "it can be represented with an integer from 0->255"
DefaultRule == 90   \* "if none given defaults to rule 90"

(***************************************************************************)
(* numpy arrays of 0/1.                                                    *)
(***************************************************************************)
Array(h, w) == [0..(h - 1) -> [0..(w - 1) -> {0, 1}]]

\* array.shape
Rows(a) == Cardinality(DOMAIN a)
Cols(a) == IF Rows(a) = 0 THEN 0 ELSE Cardinality(DOMAIN a[0])

\* np.zeros((h, w))
Zeros(h, w) == [i \in 0..(h - 1) |-> [j \in 0..(w - 1) |-> 0]]

Ones(h, w) == [i \in 0..(h - 1) |-> [j \in 0..(w - 1) |-> 1]]

\* np.count_nonzero of a flat view
CountNonzeroSeq(s) == Cardinality({k \in DOMAIN s : s[k] # 0})

\* np.count_nonzero(self.grid)
CountNonzero(a) ==
    Cardinality({p \in (DOMAIN a) \X (0..(Cols(a) - 1)) : a[p[1]][p[2]] # 0})

\* self.grid.size
Size(a) == Rows(a) * Cols(a)

\* An index of one axis of length n as numpy resolves it: a negative index
\* counts from the end, anything outside [-n, n) raises IndexError (-1 here).
NpIndex(k, n) ==
    IF 0 <= k /\ k < n THEN k
    ELSE IF -n <= k /\ k < 0 THEN k + n
    ELSE -1

\* The index arrays of _view without np.mod
NpModNoWrap(k, n) == k

\* np.mod(k, n) for n > 0: the result has the sign of n
NpMod(k, n) == k % n

(***************************************************************************)
(* Strings are tuples of characters, so that str.lower() is computed.      *)
(***************************************************************************)
LowerChar(c) ==
    CASE c = "M" -> "m"
      [] c = "N" -> "n"
      [] c = "V" -> "v"
      [] c = "O" -> "o"
      [] c = "R" -> "r"
      [] c = "E" -> "e"
      [] c = "U" -> "u"
      [] c = "A" -> "a"
      [] OTHER -> c

\* str.lower()
Lower(str) == [k \in DOMAIN str |-> LowerChar(str[k])]

Moore == <<"m", "o", "o", "r", "e">>
VonNeumann == <<"v", "o", "n", "n", "e", "u", "m", "a", "n", "n">>

\* Values a caller passes as neighbourhood_type: strings, and a non-string.
NeighbourhoodInputs ==
    { [type |-> "str", val |-> <<"M", "o", "o", "r", "e">>],
      [type |-> "str", val |-> <<"v", "o", "n", "N", "e", "u", "m", "a", "n", "n">>],
      [type |-> "str", val |-> <<"V", "O", "N", "N", "E", "U", "M", "A", "N", "N">>],
      [type |-> "str", val |-> <<"h", "e", "x">>],
      [type |-> "int", val |-> <<>>] }

\* Values a caller passes as born or survive: lists, integers, and a string.
RuleInputs ==
    { [type |-> "list", val |-> <<3>>],
      [type |-> "list", val |-> <<2, 3>>],
      [type |-> "list", val |-> <<3, 2>>],
      [type |-> "list", val |-> <<5>>],
      [type |-> "list", val |-> <<9>>],
      [type |-> "int", val |-> 4],
      [type |-> "str", val |-> 0] }

\* The (born, survive) arguments given to set_rules
RulePairs ==
    { <<b, s>> \in RuleInputs \X RuleInputs :
        \/ b.type = "list" /\ b.val = <<3>>
        \/ s.type = "list" /\ s.val = <<2, 3>> }

\* The (born, survive) arguments given to set_rules before a grid of any
\* content is updated: B36/S23, B1357/S02468, B2/S and a call that fails
UpdateRules ==
    { <<[type |-> "list", val |-> <<3, 6>>], [type |-> "list", val |-> <<2, 3>>]>>,
      <<[type |-> "list", val |-> <<1, 3, 5, 7>>],
        [type |-> "list", val |-> <<0, 2, 4, 6, 8>>]>>,
      <<[type |-> "int", val |-> 2], [type |-> "list", val |-> <<>>]>>,
      <<[type |-> "list", val |-> <<3>>], [type |-> "str", val |-> 0]>> }

\* max(list)
RECURSIVE MaxOf(_)
MaxOf(s) ==
    IF Len(s) = 1 THEN Head(s)
    ELSE LET m == MaxOf(Tail(s)) IN IF Head(s) > m THEN Head(s) ELSE m

\* The test of __init__: "Check that the neighbourhood type and rules are
\* compatible"
Incompatible(nt, b, s) ==
    LET moore == (nt = Moore)
        over_eight == (MaxOf(b) > 8 \/ MaxOf(s) > 8)
        vonneumann == (nt = VonNeumann)
        over_four == (MaxOf(b) > 4 \/ MaxOf(s) > 4)
    IN (moore /\ over_eight) \/ (vonneumann /\ over_four)

\* x in list
In(x, list) == \E k \in DOMAIN list : list[k] = x

(***************************************************************************)
(* _view, _update_cell, update_grid                                        *)
(***************************************************************************)
\* The first index array of _view (named cols there), taken modulo the height
ViewCols(nt, i, h) ==
    IF nt = VonNeumann
    THEN <<NpMod(i, h), NpMod(i, h), NpMod(i, h), NpMod(i - 1, h), NpMod(i + 1, h)>>
    ELSE <<NpMod(i - 1, h), NpMod(i, h), NpMod(i + 1, h)>>

\* The second index array of _view (named rows there), taken modulo the width
ViewRows(nt, j, w) ==
    IF nt = VonNeumann
    THEN <<NpMod(j - 1, w), NpMod(j, w), NpMod(j + 1, w), NpMod(j, w), NpMod(j, w)>>
    ELSE <<NpMod(j - 1, w), NpMod(j, w), NpMod(j + 1, w)>>

\* The <<row, column>> pairs _view reads for cell (i, j), in the order of the
\* flattened view: self.grid[cols, rows] pairs the two index arrays,
\* self.grid[np.ix_(cols, rows)] takes their product.
ViewIdx(nt, h, w, i, j) ==
    LET cols == ViewCols(nt, i, h)
        rows == ViewRows(nt, j, w)
    IN IF nt = VonNeumann
       THEN [k \in 1..5 |-> <<cols[k], rows[k]>>]
       ELSE [k \in 1..9 |-> <<cols[((k - 1) \div 3) + 1], rows[((k - 1) % 3) + 1]>>]

\* Position of the cell itself in the flattened view: view[1], view[1, 1]
CellPos(nt) == IF nt = VonNeumann THEN 2 ELSE 5

\* numpy raises IndexError when it reads outside the array
ViewValid(g, nt, h, w, i, j) ==
    LET idx == ViewIdx(nt, h, w, i, j)
    IN \A k \in DOMAIN idx :
        NpIndex(idx[k][1], Rows(g)) # -1 /\ NpIndex(idx[k][2], Cols(g)) # -1

\* The flattened view of cell (i, j)
View(g, nt, h, w, i, j) ==
    LET idx == ViewIdx(nt, h, w, i, j)
    IN [k \in DOMAIN idx |->
            g[NpIndex(idx[k][1], Rows(g))][NpIndex(idx[k][2], Cols(g))]]

\* neighbour_alive_count of _update_cell
NeighbourAliveCount(view, cell_value) == CountNonzeroSeq(view) - cell_value

\* _update_cell with the survival test made against self.born
UpdateCellBornOnly(g, nt, h, w, b, s, i, j) ==
    LET view == View(g, nt, h, w, i, j)
        cell_value == view[CellPos(nt)]
        neighbour_alive_count == NeighbourAliveCount(view, cell_value)
    IN IF cell_value = 0 /\ In(neighbour_alive_count, b) THEN 1
       ELSE IF cell_value = 1 /\ In(neighbour_alive_count, b) THEN 1
       ELSE 0

\* _update_cell with the birth test negated
UpdateCellBornUnlessListed(g, nt, h, w, b, s, i, j) ==
    LET view == View(g, nt, h, w, i, j)
        cell_value == view[CellPos(nt)]
        neighbour_alive_count == NeighbourAliveCount(view, cell_value)
    IN IF cell_value = 0 /\ ~In(neighbour_alive_count, b) THEN 1
       ELSE IF cell_value = 1 /\ In(neighbour_alive_count, s) THEN 1
       ELSE 0

\* _update_cell without the survival test
UpdateCellKeepAlive(g, nt, h, w, b, s, i, j) ==
    LET view == View(g, nt, h, w, i, j)
        cell_value == view[CellPos(nt)]
        neighbour_alive_count == NeighbourAliveCount(view, cell_value)
    IN IF cell_value = 0 /\ In(neighbour_alive_count, b) THEN 1
       ELSE IF cell_value = 1 THEN 1
       ELSE 0

\* _update_cell(i, j)
UpdateCell(g, nt, h, w, b, s, i, j) ==
    LET view == View(g, nt, h, w, i, j)
        cell_value == view[CellPos(nt)]
        neighbour_alive_count == NeighbourAliveCount(view, cell_value)
    IN IF cell_value = 0 /\ In(neighbour_alive_count, b) THEN 1
       ELSE IF cell_value = 1 /\ In(neighbour_alive_count, s) THEN 1
       ELSE 0

\* The exception update_grid raises, or "none": _view raises ValueError for an
\* unknown neighbourhood type, numpy IndexError for a read outside the grid.
UpdateError(g, nt, h, w) ==
    IF h = 0 \/ w = 0 THEN "none"
    ELSE IF nt # Moore /\ nt # VonNeumann THEN "ValueError"
    ELSE IF \E i \in 0..(h - 1), j \in 0..(w - 1) : ~ViewValid(g, nt, h, w, i, j)
         THEN "IndexError"
    ELSE "none"

\* token_grid at the end of update_grid
TokenGrid(g, nt, h, w, b, s) ==
    [i \in 0..(h - 1) |-> [j \in 0..(w - 1) |-> UpdateCell(g, nt, h, w, b, s, i, j)]]

\* all_dead_or_alive() without its all_alive test
AllDeadOnly(g) ==
    LET all_dead == (CountNonzero(g) = 0)
    IN all_dead

\* all_dead_or_alive()
AllDeadOrAlive(g) ==
    LET all_dead == (CountNonzero(g) = 0)
        all_alive == (CountNonzero(g) = Size(g))
    IN all_dead \/ all_alive

\* str(n) of an integer n >= 0: its decimal digits
DigitChars == <<"0", "1", "2", "3", "4", "5", "6", "7", "8", "9">>

RECURSIVE StrInt(_)
StrInt(n) ==
    IF n < 10 THEN <<DigitChars[n + 1]>>
    ELSE StrInt(n \div 10) \o <<DigitChars[(n % 10) + 1]>>

\* "".join(map(str, list))
RECURSIVE JoinStr(_)
JoinStr(list) ==
    IF list = <<>> THEN <<>> ELSE StrInt(Head(list)) \o JoinStr(Tail(list))

\* get_rules(): f"B{born}/S{survive}"
RulesString(b, s) == <<"B">> \o JoinStr(b) \o <<"/", "S">> \o JoinStr(s)

\* __str__ with bars as long as the grid is wide
StrNarrowBar(g, h, w) ==
    LET bar == [k \in 1..w |-> "-"]
        line(i) == <<"|">> \o [k \in 1..Cols(g) |-> IF g[i][k - 1] # 0 THEN "#" ELSE " "]
                          \o <<"|">>
    IN <<bar>> \o [k \in 1..h |-> line(k - 1)] \o <<bar>>

\* __str__: the lines of the frame, each a tuple of characters
Str(g, h, w) ==
    LET bar == [k \in 1..(w + 2) |-> "-"]
        line(i) == <<"|">> \o [k \in 1..Cols(g) |-> IF g[i][k - 1] # 0 THEN "#" ELSE " "]
                          \o <<"|">>
    IN <<bar>> \o [k \in 1..h |-> line(k - 1)] \o <<bar>>

(***************************************************************************)
(* Seeding: centre_grid, add_r_pentomino, add_glider                       *)
(***************************************************************************)
SetMin(S) == CHOOSE x \in S : \A y \in S : x <= y
SetMax(S) == CHOOSE x \in S : \A y \in S : x >= y

\* Item assignments self.grid[r, c] = v carried out one after the other, ws
\* being the tuple of <<r, c, v>>: numpy resolves each index, and the first
\* one outside the array raises IndexError, the earlier writes staying.
WritesDone(g, ws) ==
    LET bad == {k \in DOMAIN ws : \/ NpIndex(ws[k][1], Rows(g)) = -1
                                  \/ NpIndex(ws[k][2], Cols(g)) = -1}
    IN IF bad = {} THEN Len(ws) ELSE SetMin(bad) - 1

ApplyWrites(g, ws) ==
    LET n == WritesDone(g, ws)
        hits(r, c) == {k \in 1..n : /\ NpIndex(ws[k][1], Rows(g)) = r
                                    /\ NpIndex(ws[k][2], Cols(g)) = c}
    IN [r \in DOMAIN g |-> [c \in DOMAIN g[r] |->
            IF hits(r, c) = {} THEN g[r][c] ELSE ws[SetMax(hits(r, c))][3]]]

WritesError(g, ws) == IF WritesDone(g, ws) = Len(ws) THEN "none" ELSE "IndexError"

\* centre_grid with the offsets rounded up
CentreWritesRoundUp(h0, w0, array) ==
    LET h == Rows(array)
        w == Cols(array)
        hdiff == (h0 - h + 1) \div 2
        wdiff == (w0 - w + 1) \div 2
    IN [k \in 1..(h * w) |->
            LET i == (k - 1) \div w
                j == (k - 1) % w
            IN <<i + hdiff, j + wdiff, array[i][j]>>]

\* The writes of centre_grid(array), in the order of its two loops
CentreWrites(h0, w0, array) ==
    LET h == Rows(array)
        w == Cols(array)
        hdiff == (h0 - h) \div 2
        wdiff == (w0 - w) \div 2
    IN [k \in 1..(h * w) |->
            LET i == (k - 1) \div w
                j == (k - 1) % w
            IN <<i + hdiff, j + wdiff, array[i][j]>>]

\* The indices a slice a:b selects on an axis of length n (0 <= a)
Slice(a, b, n) == {k \in 0..(n - 1) : a <= k /\ k < b}

\* add_r_pentomino with its first off-shoot put on the central bar
RPentominoWritesOnBar(h0, w0) ==
    LET mh == h0 \div 2
        mw == w0 \div 2
    IN << <<mh - 1, mw, 1>>, <<mh, mw, 1>>, <<mh + 1, mw, 1>>,
          <<mh - 1, mw, 1>>, <<mh, mw - 1, 1>> >>

\* add_r_pentomino: the central bar, then the two off-shoots (a chained
\* assignment stores into its targets from left to right)
RPentominoWrites(h0, w0) ==
    LET mh == h0 \div 2
        mw == w0 \div 2
    IN << <<mh - 1, mw, 1>>, <<mh, mw, 1>>, <<mh + 1, mw, 1>>,
          <<mh - 1, mw + 1, 1>>, <<mh, mw - 1, 1>> >>

\* add_glider with the off-shoots of add_r_pentomino
GliderWritesPentomino(h0, w0) ==
    LET mh == h0 \div 2
        mw == w0 \div 2
    IN << <<mh + 1, mw - 1, 1>>, <<mh + 1, mw, 1>>, <<mh + 1, mw + 1, 1>>,
          <<mh - 1, mw + 1, 1>>, <<mh, mw - 1, 1>> >>

\* add_glider: the central bar, then the two off-shoots
GliderWrites(h0, w0) ==
    LET mh == h0 \div 2
        mw == w0 \div 2
    IN << <<mh + 1, mw - 1, 1>>, <<mh + 1, mw, 1>>, <<mh + 1, mw + 1, 1>>,
          <<mh, mw + 1, 1>>, <<mh - 1, mw, 1>> >>

\* Assigning the tuple 1, 1, 1 to a slice that does not select three cells
\* raises ValueError before anything is written.
RPentominoBarFits(g, h0, w0) ==
    Cardinality(Slice((h0 \div 2) - 1, (h0 \div 2) + 2, Rows(g))) = 3

GliderBarFits(g, h0, w0) ==
    Cardinality(Slice((w0 \div 2) - 1, (w0 \div 2) + 2, Cols(g))) = 3

(***************************************************************************)
(* Inputs                                                                  *)
(***************************************************************************)
\* rng.integers(low=0, high=2, size=(h, w)): any 0/1 array.  All of them for
\* a small grid; for a larger one the two uniform arrays and those with a
\* single cell alive or a single cell dead.
RandomGrids(h, w) ==
    IF h * w <= FullCells THEN Array(h, w)
    ELSE LET single(r, c, a, b) ==
                 [i \in 0..(h - 1) |-> [j \in 0..(w - 1) |->
                     IF i = r /\ j = c THEN a ELSE b]]
         IN {Zeros(h, w), Ones(h, w)}
            \cup {single(r, c, 1, 0) : r \in 0..(h - 1), c \in 0..(w - 1)}
            \cup {single(r, c, 0, 1) : r \in 0..(h - 1), c \in 0..(w - 1)}

Checker(h, w) == [i \in 0..(h - 1) |-> [j \in 0..(w - 1) |-> (i + j) % 2]]
Corner(h, w) ==
    [i \in 0..(h - 1) |-> [j \in 0..(w - 1) |-> IF i = 0 /\ j = 0 THEN 1 ELSE 0]]

\* Arrays given to centre_grid ("A numpy array where the entries are 0 or 1")
Patterns ==
    UNION {{Ones(h, w), Checker(h, w), Corner(h, w)} : h \in 1..MaxPat, w \in 1..MaxPat}

\* Values of niter given to run
NiterInputs ==
    {[none |-> TRUE, n |-> 0]} \cup {[none |-> FALSE, n |-> n] : n \in 0..MaxIter}

NoArg == Zeros(0, 0)

\* No value returned yet
NoRet == [kind |-> "none", val |-> <<>>]

\* one_dimension.py has not been started
NotStarted ==
    [pc |-> "none", err |-> "none", niter |-> 0, rule_num |-> 0, RULES |-> <<>>,
     grid |-> NoArg, i |-> 0, j |-> 0, out |-> <<>>]

(***************************************************************************)
(* __init__                                                                *)
(***************************************************************************)
\* The grid made as large as the width and height given
InnerSizeWithBorder(n) == n

\* self.width = width - 2, self.height = height - 2
InnerSize(n) == n - Border

\* The state after Grid(width=wd, height=ht, random=rnd); g0 is the array the
\* random generator returns when rnd holds.
Construct(wd, ht, rnd, g0) ==
    LET b0 == <<3>>
        s0 == <<2, 3>>
        nt0 == Lower(<<"M", "o", "o", "r", "e">>)
        e == IF Incompatible(nt0, b0, s0) THEN "ValueError"
             ELSE IF wd < MinDim \/ ht < MinDim THEN "SystemExit"
             ELSE "none"
        w1 == IF e = "none" THEN InnerSize(wd) ELSE 0
        h1 == IF e = "none" THEN InnerSize(ht) ELSE 0
    IN /\ ctor = [width |-> wd, height |-> ht, random |-> rnd]
       /\ born = b0
       /\ survive = s0
       /\ neighbourhood_type = nt0
       /\ err = e
       /\ width = w1
       /\ height = h1
       /\ grid = IF e = "none" /\ rnd THEN g0 ELSE Zeros(h1, w1)
       /\ pc = "idle"
       /\ niter = [none |-> TRUE, n |-> 0]
       /\ iters = 0
       /\ out = [kind |-> "none", text |-> <<>>]
       /\ op = "__init__"
       /\ arg = NoArg
       /\ old = Zeros(h1, w1)
       /\ base = grid
       /\ gen = 0
       /\ calls = 0
       /\ ret = NoRet
       /\ token_grid = NoArg
       /\ assigned = 0
       /\ one_dimension = NotStarted

Init ==
    \E wd \in (MinDim - 1)..MaxDim, ht \in (MinDim - 1)..MaxDim, rnd \in BOOLEAN :
        \E g0 \in IF rnd /\ wd >= MinDim /\ ht >= MinDim
                  THEN RandomGrids(ht - Border, wd - Border) ELSE {NoArg} :
            Construct(wd, ht, rnd, g0)

\* Construction of an all-dead grid
InitDead ==
    \E wd \in (MinDim - 1)..MaxDim, ht \in (MinDim - 1)..MaxDim :
        Construct(wd, ht, FALSE, NoArg)

\* Construction of an all-dead grid of up to MaxCentreDim x MaxCentreDim
InitCentre ==
    \E wd \in (MinDim - 1)..MaxCentreDim, ht \in (MinDim - 1)..MaxCentreDim :
        Construct(wd, ht, FALSE, NoArg)

\* Construction of an all-dead grid of up to MaxGliderDim x MaxGliderDim
InitGlider ==
    \E wd \in (MinDim - 1)..MaxGliderDim, ht \in (MinDim - 1)..MaxGliderDim :
        Construct(wd, ht, FALSE, NoArg)

(***************************************************************************)
(* The public methods.  A method is called while no run() is in progress   *)
(* and no exception has ended the program.                                 *)
(***************************************************************************)
Callable == err = "none" /\ pc \in {"idle", "stopped"}

\* set_rules(born=b, survive=s)
SetRules(b, s) ==
    LET bad_b == b.type \notin {"list", "int"}
        bad_s == s.type \notin {"list", "int"}
        as_list(x) == IF x.type = "list" THEN x.val ELSE <<x.val>>
    IN /\ Callable
       /\ born' = IF bad_b THEN born ELSE as_list(b)
       /\ survive' = IF bad_b \/ bad_s THEN survive ELSE as_list(s)
       /\ err' = IF bad_b \/ bad_s THEN "TypeError" ELSE "none"
       /\ op' = "set_rules"
       /\ arg' = NoArg
       /\ calls' = calls + 1
       /\ UNCHANGED <<one_dimension, ret, token_grid, assigned, ctor, height, width, grid, neighbourhood_type, pc, niter,
                      iters, out, old, base, gen>>

\* set_neighbourhood_type(t): the value is stored before it is checked
SetNeighbourhoodType(t) ==
    /\ Callable
    /\ neighbourhood_type' = IF t.type = "str" THEN Lower(t.val) ELSE neighbourhood_type
    /\ err' = IF t.type # "str" THEN "TypeError"
              ELSE IF Lower(t.val) \notin {Moore, VonNeumann} THEN "ValueError"
              ELSE "none"
    /\ op' = "set_neighbourhood_type"
    /\ arg' = NoArg
    /\ calls' = calls + 1
    /\ UNCHANGED <<one_dimension, ret, token_grid, assigned, ctor, height, width, grid, born, survive, pc, niter, iters,
                   out, old, base, gen>>

\* What a seeding method that makes the writes ws does; fits is false when
\* the method raises ValueError before its first write.
Seed(name, a, fits, ws) ==
    /\ Callable
    /\ grid' = IF fits THEN ApplyWrites(grid, ws) ELSE grid
    /\ err' = IF fits THEN WritesError(grid, ws) ELSE "ValueError"
    /\ op' = name
    /\ arg' = a
    /\ old' = grid
    /\ base' = grid'
    /\ gen' = 0
    /\ calls' = calls + 1
    /\ UNCHANGED <<one_dimension, ret, token_grid, assigned, ctor, height, width, born, survive, neighbourhood_type, pc,
                   niter, iters, out>>

\* centre_grid(array) on a grid made all dead first
CentreGridOnBlank(array) ==
    /\ Callable
    /\ grid' = ApplyWrites(Zeros(height, width), CentreWrites(height, width, array))
    /\ err' = WritesError(grid, CentreWrites(height, width, array))
    /\ op' = "centre_grid"
    /\ arg' = array
    /\ old' = grid
    /\ base' = grid'
    /\ gen' = 0
    /\ calls' = calls + 1
    /\ UNCHANGED <<one_dimension, ret, token_grid, assigned, ctor, height, width,
                   born, survive, neighbourhood_type, pc, niter, iters, out>>

\* centre_grid(array)
CentreGrid(array) ==
    Seed("centre_grid", array, TRUE, CentreWrites(height, width, array))

\* add_r_pentomino()
AddRPentomino ==
    Seed("add_r_pentomino", NoArg, RPentominoBarFits(grid, height, width),
         RPentominoWrites(height, width))

\* add_glider()
AddGlider ==
    Seed("add_glider", NoArg, GliderBarFits(grid, height, width),
         GliderWrites(height, width))

\* The body of update_grid: self.grid is replaced once token_grid is complete,
\* and stays as it is when a cell's update raises.
UpdateGridBody ==
    LET e == UpdateError(grid, neighbourhood_type, height, width)
    IN /\ err' = e
       /\ grid' = IF e = "none"
                  THEN TokenGrid(grid, neighbourhood_type, height, width, born, survive)
                  ELSE grid
       /\ old' = grid
       /\ gen' = IF gen < MaxGen THEN gen + 1 ELSE gen
       /\ op' = "update_grid"
       /\ arg' = NoArg

\* update_grid() called by the user
UpdateGrid ==
    /\ Callable
    /\ UpdateGridBody
    /\ calls' = calls + 1
    /\ UNCHANGED <<one_dimension, ret, token_grid, assigned, ctor, height, width, born, survive, neighbourhood_type, pc,
                   niter, iters, out, base>>

(***************************************************************************)
(* update_grid(), one step per cell of its loops                           *)
(***************************************************************************)
\* np.empty_like(self.grid): an array of the shape of the grid whose cells
\* hold what the memory held, any integer: dead, alive or neither.
EmptyLike(g) == {[i \in DOMAIN g |-> [j \in DOMAIN g[i] |-> v]] : v \in {0, 1, 7}}

\* update_grid() up to its loops
UpdateGridEnter ==
    /\ Callable
    /\ pc = "idle"
    /\ \E t \in EmptyLike(grid) : token_grid' = t
    /\ assigned' = 0
    /\ pc' = "update"
    /\ old' = grid
    /\ op' = "update_grid"
    /\ arg' = NoArg
    /\ calls' = calls + 1
    /\ UNCHANGED <<one_dimension, ret, ctor, height, width, grid, born, survive,
                   neighbourhood_type, niter, iters, out, err, base, gen>>

\* The exception _update_cell(i, j) raises, or "none"
UpdateCellError(g, nt, h, w, i, j) ==
    IF nt # Moore /\ nt # VonNeumann THEN "ValueError"
    ELSE IF ~ViewValid(g, nt, h, w, i, j) THEN "IndexError"
    ELSE "none"

\* The loop body with token_grid being self.grid itself, not a new array
UpdateGridCellInPlace ==
    /\ err = "none"
    /\ pc = "update"
    /\ assigned < height * width
    /\ LET i == assigned \div width
           j == assigned % width
           e == UpdateCellError(grid, neighbourhood_type, height, width, i, j)
           v == UpdateCell(grid, neighbourhood_type, height, width, born, survive, i, j)
       IN /\ err' = e
          /\ token_grid' = IF e = "none" THEN [token_grid EXCEPT ![i][j] = v]
                           ELSE token_grid
          /\ grid' = IF e = "none" THEN [grid EXCEPT ![i][j] = v] ELSE grid
          /\ assigned' = IF e = "none" THEN assigned + 1 ELSE assigned
    /\ UNCHANGED <<one_dimension, ret, ctor, height, width, born, survive,
                   neighbourhood_type, pc, niter, iters, out, op, arg, old, base,
                   gen, calls>>

\* token_grid[i, j] = self._update_cell(i, j), for the next (i, j) of the loops
UpdateGridCell ==
    /\ err = "none"
    /\ pc = "update"
    /\ assigned < height * width
    /\ LET i == assigned \div width
           j == assigned % width
           e == UpdateCellError(grid, neighbourhood_type, height, width, i, j)
           v == UpdateCell(grid, neighbourhood_type, height, width, born, survive, i, j)
       IN /\ err' = e
          /\ token_grid' = IF e = "none" THEN [token_grid EXCEPT ![i][j] = v]
                           ELSE token_grid
          /\ assigned' = IF e = "none" THEN assigned + 1 ELSE assigned
    /\ UNCHANGED <<one_dimension, ret, ctor, height, width, grid, born, survive,
                   neighbourhood_type, pc, niter, iters, out, op, arg, old, base,
                   gen, calls>>

\* self.grid = token_grid, and the return; the local name token_grid is gone
UpdateGridReturn ==
    /\ err = "none"
    /\ pc = "update"
    /\ assigned = height * width
    /\ grid' = token_grid
    /\ token_grid' = NoArg
    /\ assigned' = 0
    /\ pc' = "idle"
    /\ gen' = IF gen < MaxGen THEN gen + 1 ELSE gen
    /\ UNCHANGED <<one_dimension, ret, ctor, height, width, born, survive,
                   neighbourhood_type, niter, iters, out, err, op, arg, old, base,
                   calls>>

(***************************************************************************)
(* The methods that return a value and change nothing                      *)
(***************************************************************************)
Returns(name, kind, val) ==
    /\ Callable
    /\ ret' = [kind |-> kind, val |-> val]
    /\ op' = name
    /\ arg' = NoArg
    /\ calls' = calls + 1
    /\ UNCHANGED <<one_dimension, token_grid, assigned, ctor, height, width, grid,
                   born, survive, neighbourhood_type, pc, niter, iters, out, err,
                   old, base, gen>>

\* all_dead_or_alive() called by the user
CallAllDeadOrAlive == Returns("all_dead_or_alive", "bool", AllDeadOrAlive(grid))

\* get_rules()
CallGetRules == Returns("get_rules", "str", RulesString(born, survive))

\* str(grid_instance)
CallStr == Returns("__str__", "str", Str(grid, height, width))

(***************************************************************************)
(* run(niter), one step per statement of its loop                          *)
(***************************************************************************)
Running == {"iterate", "print", "check"}

\* run(niter=n) up to its loop: the title is printed; a for loop over an
\* empty range ends at once.
Run(n) ==
    /\ Callable
    /\ niter' = n
    /\ out' = [kind |-> "title", text |-> <<>>]
    /\ IF n.none THEN pc' = "iterate" /\ iters' = 0
       ELSE IF 0 < n.n THEN pc' = "iterate" /\ iters' = 1
       ELSE pc' = "stopped" /\ iters' = 0
    /\ op' = "run"
    /\ arg' = NoArg
    /\ base' = grid
    /\ gen' = 0
    /\ calls' = calls + 1
    /\ UNCHANGED <<one_dimension, ret, token_grid, assigned, ctor, height, width, grid, born, survive, neighbourhood_type,
                   err, old>>

\* iterate() entered again after run() has returned
RunIterateAfterStop ==
    /\ err = "none"
    /\ pc \in {"iterate", "stopped"}
    /\ UpdateGridBody
    /\ pc' = "print"
    /\ UNCHANGED <<one_dimension, ret, token_grid, assigned, ctor, height, width, born, survive, neighbourhood_type, niter,
                   iters, out, base, calls>>

\* iterate(): self.update_grid()
RunIterate ==
    /\ err = "none"
    /\ pc = "iterate"
    /\ UpdateGridBody
    /\ pc' = "print"
    /\ UNCHANGED <<one_dimension, ret, token_grid, assigned, ctor, height, width, born, survive, neighbourhood_type, niter,
                   iters, out, base, calls>>

\* iterate(): the terminal is cleared, print(self), time.sleep(1 / self.fps)
RunPrint ==
    /\ err = "none"
    /\ pc = "print"
    /\ out' = [kind |-> "frame", text |-> Str(grid, height, width)]
    /\ pc' = "check"
    /\ UNCHANGED <<one_dimension, ret, token_grid, assigned, ctor, height, width, grid, born, survive, neighbourhood_type,
                   niter, iters, err, op, arg, old, base, gen, calls>>

\* The loop of run(niter) without its break
RunCheckNoBreak ==
    /\ err = "none"
    /\ pc = "check"
    /\ IF niter.none
       THEN IF AllDeadOrAlive(grid) THEN pc' = "stopped" /\ iters' = iters
            ELSE pc' = "iterate" /\ iters' = iters
       ELSE IF iters < niter.n THEN pc' = "iterate" /\ iters' = iters + 1
       ELSE pc' = "stopped" /\ iters' = iters
    /\ UNCHANGED <<one_dimension, ret, token_grid, assigned, ctor, height, width, grid, born, survive, neighbourhood_type,
                   niter, out, err, op, arg, old, base, gen, calls>>

\* A loop that also stops when the grid did not change
RunCheckStable ==
    /\ err = "none"
    /\ pc = "check"
    /\ IF AllDeadOrAlive(grid) \/ grid = old THEN pc' = "stopped" /\ iters' = iters
       ELSE IF niter.none THEN pc' = "iterate" /\ iters' = iters
       ELSE IF iters < niter.n THEN pc' = "iterate" /\ iters' = iters + 1
       ELSE pc' = "stopped" /\ iters' = iters
    /\ UNCHANGED <<one_dimension, ret, token_grid, assigned, ctor, height, width, grid, born, survive, neighbourhood_type,
                   niter, out, err, op, arg, old, base, gen, calls>>

\* if self.all_dead_or_alive(): break, else the next turn of the loop
RunCheck ==
    /\ err = "none"
    /\ pc = "check"
    /\ IF AllDeadOrAlive(grid) THEN pc' = "stopped" /\ iters' = iters
       ELSE IF niter.none THEN pc' = "iterate" /\ iters' = iters
       ELSE IF iters < niter.n THEN pc' = "iterate" /\ iters' = iters + 1
       ELSE pc' = "stopped" /\ iters' = iters
    /\ UNCHANGED <<one_dimension, ret, token_grid, assigned, ctor, height, width, grid, born, survive, neighbourhood_type,
                   niter, out, err, op, arg, old, base, gen, calls>>

RunStep == RunIterate \/ RunPrint \/ RunCheck

(***************************************************************************)
(* one_dimension.py: generate_rules, pprint and main, whose loops are       *)
(* followed one cell at a time                                             *)
(***************************************************************************)
\* f"{n:b}": the binary digits of n >= 0
RECURSIVE Bin(_)
Bin(n) ==
    IF n < 2 THEN <<DigitChars[n + 1]>>
    ELSE Bin(n \div 2) \o <<DigitChars[(n % 2) + 1]>>

\* f"{n:08b}": the same, filled with zeros on the left to eight characters
Bin08(n) ==
    LET digits == Bin(n)
    IN IF Len(digits) >= 8 THEN digits
       ELSE [k \in 1..(8 - Len(digits)) |-> "0"] \o digits

\* int(x) of a one-digit string
IntOfChar(c) == CHOOSE d \in 0..9 : DigitChars[d + 1] = c

\* keys of generate_rules
RuleKeys ==
    << <<"1", "1", "1">>, <<"1", "1", "0">>, <<"1", "0", "1">>, <<"1", "0", "0">>,
       <<"0", "1", "1">>, <<"0", "1", "0">>, <<"0", "0", "1">>, <<"0", "0", "0">> >>

\* generate_rules(rule_num): zip pairs the keys with as many outcomes
GenerateRules(rule_num) ==
    LET outcomes == [k \in DOMAIN Bin08(rule_num) |-> IntOfChar(Bin08(rule_num)[k])]
        n == IF Len(outcomes) < Len(RuleKeys) THEN Len(outcomes) ELSE Len(RuleKeys)
    IN [key \in {RuleKeys[k] : k \in 1..n} |->
            outcomes[CHOOSE k \in 1..n : RuleKeys[k] = key]]

\* row[a:b] of a row of n cells: a negative bound counts from the end, and a
\* bound outside the row is cut to it
PySlice(row, a, b, n) ==
    LET cut(x) == IF x < 0 THEN (IF x + n < 0 THEN 0 ELSE x + n)
                  ELSE IF x > n THEN n ELSE x
        lo == cut(a)
        hi == cut(b)
    IN IF hi <= lo THEN <<>> ELSE [k \in 1..(hi - lo) |-> row[lo + k - 1]]

\* range(niter-i-1, niter+i+2): one cell more on either side
RowRangeWide(n, i) == (n - i - 1)..(n + i + 1)

\* range(niter-i, niter+i+1)
RowRange(n, i) == (n - i)..(n + i)

\* pprint(array): the lines printed
Pprint(array) ==
    LET h == Rows(array)
        w == Cols(array)
        bar == [k \in 1..(w + 4) |-> "-"]
        line(i) == <<"|", " ">> \o [k \in 1..w |-> IF array[i][k - 1] # 0 THEN "#" ELSE " "]
                               \o <<" ", "|">>
    IN <<bar>> \o [k \in 1..h |-> line(k - 1)] \o <<bar>>

\* main() up to its loops, started with the arguments argv (after the name
\* of the program): niter, and the rule number if one is given
MainStart(argv) ==
    LET n == argv[1]
        rule_num == IF Len(argv) >= 2 THEN argv[2] ELSE DefaultRule
        fwidth == 1 + 2 * n
        zeros == Zeros(n, fwidth)
        e == IF NpIndex(0, n) = -1 \/ NpIndex(n, fwidth) = -1 THEN "IndexError"
             ELSE "none"
    IN [pc |-> "loop", err |-> e, niter |-> n, rule_num |-> rule_num,
        RULES |-> GenerateRules(rule_num),
        grid |-> IF e = "none" THEN [zeros EXCEPT ![0][n] = 1] ELSE zeros,
        i |-> 1, j |-> SetMin(RowRange(n, 1)), out |-> <<>>]

\* No Grid is made by one_dimension.py
NotConstructed ==
    /\ ctor = [width |-> 0, height |-> 0, random |-> FALSE]
    /\ height = 0 /\ width = 0
    /\ grid = NoArg
    /\ born = <<>> /\ survive = <<>>
    /\ neighbourhood_type = <<>>
    /\ pc = "idle"
    /\ niter = [none |-> TRUE, n |-> 0]
    /\ iters = 0
    /\ out = [kind |-> "none", text |-> <<>>]
    /\ err = "none"
    /\ op = "none"
    /\ arg = NoArg
    /\ old = NoArg
    /\ base = NoArg
    /\ gen = 0
    /\ calls = 0
    /\ ret = NoRet
    /\ token_grid = NoArg
    /\ assigned = 0

InitOneDimension ==
    /\ NotConstructed
    /\ \E argv \in {<<n>> : n \in 0..MaxNiter}
                  \cup {<<n, r>> : n \in 0..MaxNiter, r \in 0..MaxRule} :
           one_dimension = MainStart(argv)

\* The body of the loops for the next (i, j): the rule is looked up for the
\* three cells above, a window that is not a key raising KeyError
MainCell ==
    LET d == one_dimension
        window == PySlice(d.grid[d.i - 1], d.j - 1, d.j + 2, Cols(d.grid))
        rule == JoinStr(window)
        found == rule \in DOMAIN d.RULES
        last == d.j + 1 \notin RowRange(d.niter, d.i)
    IN /\ d.pc = "loop"
       /\ d.err = "none"
       /\ d.i < d.niter
       /\ one_dimension' =
              IF ~found THEN [d EXCEPT !.err = "KeyError"]
              ELSE [d EXCEPT !.grid[d.i][d.j] = d.RULES[rule],
                             !.i = IF last THEN d.i + 1 ELSE d.i,
                             !.j = IF last THEN SetMin(RowRange(d.niter, d.i + 1))
                                   ELSE d.j + 1]
       /\ UNCHANGED <<ret, token_grid, assigned, ctor, height, width, grid, born,
                      survive, neighbourhood_type, pc, niter, iters, out, err, op,
                      arg, old, base, gen, calls>>

\* pprint(grid), after the loops
MainPprint ==
    LET d == one_dimension
    IN /\ d.pc = "loop"
       /\ d.err = "none"
       /\ d.i >= d.niter
       /\ one_dimension' = [d EXCEPT !.pc = "done", !.out = Pprint(d.grid)]
       /\ UNCHANGED <<ret, token_grid, assigned, ctor, height, width, grid, born,
                      survive, neighbourhood_type, pc, niter, iters, out, err, op,
                      arg, old, base, gen, calls>>

(***************************************************************************)
(* Specifications                                                          *)
(***************************************************************************)
\* A grid of any content is updated: the rules and the neighbourhood are set,
\* each at most once, before up to MaxUpdates calls of update_grid.
Next ==
    \/ /\ op = "__init__"
       /\ \E p \in UpdateRules : SetRules(p[1], p[2])
    \/ /\ op \in {"__init__", "set_rules"}
       /\ \E t \in NeighbourhoodInputs : SetNeighbourhoodType(t)
    \/ /\ gen < MaxUpdates
       /\ UpdateGrid

Spec == Init /\ [][Next]_vars

\* An all-dead grid is configured by any sequence of set_rules and
\* set_neighbourhood_type calls, and updated.
NextConfig ==
    \/ /\ calls < MaxConfigCalls
       /\ \E p \in RulePairs : SetRules(p[1], p[2])
    \/ /\ calls < MaxConfigCalls
       /\ \E t \in NeighbourhoodInputs : SetNeighbourhoodType(t)
    \/ /\ calls < MaxConfigCalls
       /\ UpdateGrid

SpecConfig == InitDead /\ [][NextConfig]_vars

\* Arrays of up to three rows and columns
SeedPatterns == {a \in Patterns : Rows(a) <= 3 /\ Cols(a) <= 3}

\* An all-dead grid is seeded and updated in any order.
NextSeed ==
    \/ /\ calls < MaxSeedCalls
       /\ \E a \in SeedPatterns : CentreGrid(a)
    \/ /\ calls < MaxSeedCalls
       /\ AddRPentomino
    \/ /\ calls < MaxSeedCalls
       /\ AddGlider
    \/ /\ calls < MaxSeedCalls
       /\ UpdateGrid

SpecSeed == InitDead /\ [][NextSeed]_vars

\* An array is centred on a fresh grid, as Grid(fname=...) does.
NextCentre ==
    /\ op = "__init__"
    /\ \E a \in Patterns : CentreGrid(a)

SpecCentre == InitCentre /\ [][NextCentre]_vars

\* A fresh grid is seeded at most once and run, possibly several times.
NextRun ==
    \/ /\ op = "__init__"
       /\ \E a \in SeedPatterns : CentreGrid(a)
    \/ /\ op = "__init__"
       /\ AddRPentomino
    \/ /\ op = "__init__"
       /\ AddGlider
    \/ /\ calls < MaxRunCalls
       /\ \E n \in NiterInputs : Run(n)
    \/ RunStep

SpecRun == InitDead /\ [][NextRun]_vars

\* A step that moves the position of run().  While run() is in its loop one of
\* its steps can be taken, each of them moves pc, and no other action does.
RunMoves == err = "none" /\ pc \in Running /\ pc' \in Running \cup {"stopped"}

\* The same with run() never interrupted: while it is in its loop, its
\* position moves on.
FairRun == SpecRun /\ WF_pc(RunMoves)

\* A glider is put on a fresh grid, which is then updated.
NextGlider ==
    \/ /\ op = "__init__"
       /\ AddGlider
    \/ /\ gen < MaxGen
       /\ UpdateGrid

SpecGlider == InitGlider /\ [][NextGlider]_vars

\* A grid of any content is rendered and asked whether it is all dead or all
\* alive.
NextRender ==
    \/ /\ calls < MaxQueryCalls
       /\ CallAllDeadOrAlive
    \/ /\ calls < MaxQueryCalls
       /\ CallStr

SpecRender == Init /\ [][NextRender]_vars

\* The rules of an instance are set and read back.
NextRules ==
    \/ /\ calls < MaxRuleCalls
       /\ \E p \in RulePairs : SetRules(p[1], p[2])
    \/ /\ calls < MaxRuleCalls
       /\ CallGetRules

SpecRules == InitDead /\ [][NextRules]_vars

\* update_grid is followed through its loops on a grid of any content, under
\* either neighbourhood.
NextPass ==
    \/ /\ op = "__init__"
       /\ \E t \in NeighbourhoodInputs : SetNeighbourhoodType(t)
    \/ /\ gen < MaxPasses
       /\ UpdateGridEnter
    \/ UpdateGridCell
    \/ UpdateGridReturn

SpecPass == Init /\ [][NextPass]_vars

\* one_dimension.py is run with any niter and any rule number.
NextOneDimension ==
    \/ MainCell
    \/ MainPprint

SpecOneDimension == InitOneDimension /\ [][NextOneDimension]_vars

(***************************************************************************)
(* Properties of update_grid                                               *)
(***************************************************************************)
Elements(list) == {list[k] : k \in DOMAIN list}

MooreOffsets == ((-1..1) \X (-1..1)) \ {<<0, 0>>}
VonNeumannOffsets == {<<0, -1>>, <<0, 1>>, <<-1, 0>>, <<1, 0>>}
OffsetsOf(nt) == IF nt = VonNeumann THEN VonNeumannOffsets ELSE MooreOffsets

\* Number of offsets whose toroidally wrapped neighbour of (i, j) is alive in g
AliveNeighbours(g, nt, i, j) ==
    Cardinality({o \in OffsetsOf(nt) :
        g[(i + o[1]) % Rows(g)][(j + o[2]) % Cols(g)] = 1})

\* The rule: born from dead, surviving when alive, dead otherwise
Decide(cell, n, b, s) ==
    IF cell = 0 /\ n \in Elements(b) THEN 1
    ELSE IF cell = 1 /\ n \in Elements(s) THEN 1
    ELSE 0

UpdateDone == op = "update_grid" /\ err = "none"

\* C1: after an update_grid call every cell (i, j) of the grid equals the rule
\* applied to the old cell and to the number of alive cells among its
\* toroidally wrapped neighbours (8 Moore or 4 von Neumann offsets) in the old
\* grid.
C1_UpdateIsRuleOfOldNeighbours ==
    UpdateDone =>
        \A i \in 0..(height - 1), j \in 0..(width - 1) :
            grid[i][j] = Decide(old[i][j],
                                AliveNeighbours(old, neighbourhood_type, i, j),
                                born, survive)

\* An update under the von Neumann neighbourhood in which a corner cell, whose
\* neighbours wrap, is born, one cell survives and one dies.
C1_Witness ==
    /\ UpdateDone
    /\ neighbourhood_type = VonNeumann
    /\ old[0][0] = 0 /\ grid[0][0] = 1
    /\ \E i \in 0..(height - 1), j \in 0..(width - 1) : old[i][j] = 1 /\ grid[i][j] = 1
    /\ \E i \in 0..(height - 1), j \in 0..(width - 1) : old[i][j] = 1 /\ grid[i][j] = 0

\* The grid g with cell (i, j) changed
Flip(g, i, j) == [g EXCEPT ![i][j] = 1 - g[i][j]]

CountAt(g, nt, i, j) ==
    LET view == View(g, nt, height, width, i, j)
    IN NeighbourAliveCount(view, view[CellPos(nt)])

\* C2: for both neighbourhoods and every cell (i, j) of the grid, every index
\* the sampler reads lies in [0, height) x [0, width), and the count of alive
\* neighbours does not depend on the state of cell (i, j) itself.
C2_ViewInRangeCentreExcluded ==
    err = "none" =>
        \A nt \in {Moore, VonNeumann}, i \in 0..(height - 1), j \in 0..(width - 1) :
            LET idx == ViewIdx(nt, height, width, i, j)
            IN /\ \A k \in DOMAIN idx :
                      /\ idx[k][1] \in 0..(Rows(grid) - 1)
                      /\ idx[k][2] \in 0..(Cols(grid) - 1)
               /\ CountAt(grid, nt, i, j) = CountAt(Flip(grid, i, j), nt, i, j)

\* A grid whose four corners are alive: the view of a corner cell wraps on
\* both axes and has live neighbours beside the live centre.
C2_Witness ==
    /\ err = "none"
    /\ height >= 3 /\ width >= 3
    /\ grid[0][0] = 1 /\ grid[0][width - 1] = 1
    /\ grid[height - 1][0] = 1 /\ grid[height - 1][width - 1] = 1
    /\ CountAt(grid, Moore, 0, 0) >= 3
    /\ UpdateDone

(***************************************************************************)
(* Properties of the configuration                                         *)
(***************************************************************************)
\* The largest number of alive neighbours a neighbourhood can have
MaxCount(nt) == IF nt = VonNeumann THEN 4 ELSE 8

\* C3: in every state reached by set_rules and set_neighbourhood_type calls
\* that the program survives, every entry of born and survive is at most 8
\* under Moore and at most 4 under von Neumann.
C3_RulesWithinNeighbourhoodMax ==
    (err = "none" /\ neighbourhood_type \in {Moore, VonNeumann}) =>
        \A x \in Elements(born) \cup Elements(survive) :
            x <= MaxCount(neighbourhood_type)

(***************************************************************************)
(* Properties of the grid's dimensions and of seeding                      *)
(***************************************************************************)
Constructed == ctor.width >= MinDim /\ ctor.height >= MinDim

\* C4 as claimed: the cell matrix has as many rows and columns as the height
\* and width the Grid was constructed with.
C4_MatrixIsHeightByWidth ==
    Constructed => Rows(grid) = ctor.height /\ Cols(grid) = ctor.width

\* C4: a Grid constructed with height H and width W owns a cell matrix of H - 2
\* rows and W - 2 columns, in every state reached by seeding and update_grid.
C4_MatrixIsTwoLessThanArguments ==
    Constructed =>
        /\ DOMAIN grid = 0..(ctor.height - 3)
        /\ \A r \in DOMAIN grid : DOMAIN grid[r] = 0..(ctor.width - 3)
        /\ height = ctor.height - 2
        /\ width = ctor.width - 2

\* A 4 x 3 matrix (constructed with height 6, width 5) that was seeded and
\* then updated.
C4_Witness ==
    /\ ctor.height = 6 /\ ctor.width = 5
    /\ calls = 2
    /\ UpdateDone
    /\ CountNonzero(old) > 0
    /\ grid # old

CentreDone == op = "centre_grid"
Fits(a) == Rows(a) <= height /\ Cols(a) <= width

\* C5: centre_grid of an h x w array that fits an H x W grid writes array cell
\* (i, j) to grid cell ((H - h) div 2 + i, (W - w) div 2 + j); the corner of a
\* 3 x 3 array goes to (3, 3) in a 9 x 9 grid and to (2, 2) in an 8 x 8 grid.
C5_CentredAtFloorOffsets ==
    (CentreDone /\ Fits(arg)) =>
        LET h == Rows(arg)
            w == Cols(arg)
        IN /\ err = "none"
           /\ \A i \in 0..(h - 1), j \in 0..(w - 1) :
                  grid[((Rows(grid) - h) \div 2) + i][((Cols(grid) - w) \div 2) + j]
                      = arg[i][j]
           /\ (Rows(grid) = 9 /\ Cols(grid) = 9 /\ h = 3 /\ w = 3) =>
                  \A i \in 0..2, j \in 0..2 : grid[3 + i][3 + j] = arg[i][j]
           /\ (Rows(grid) = 8 /\ Cols(grid) = 8 /\ h = 3 /\ w = 3) =>
                  \A i \in 0..2, j \in 0..2 : grid[2 + i][2 + j] = arg[i][j]

\* A 3 x 3 array with only its top-left cell alive was centred on an 8 x 8
\* grid: cell (2, 2) is the only live cell.
C5_Witness ==
    /\ CentreDone
    /\ Rows(grid) = 8 /\ Cols(grid) = 8
    /\ arg = Corner(3, 3)
    /\ grid[2][2] = 1
    /\ CountNonzero(grid) = 1

\* C6: centre_grid of an array with more rows or more columns than the grid
\* fails with an error and writes no cell.
C6_OversizePatternRejected ==
    (CentreDone /\ ~Fits(arg)) => (err # "none" /\ grid = old)

(***************************************************************************)
(* Properties of run                                                       *)
(***************************************************************************)
\* True of any array; evaluating it has the model checker compute the cells
\* of a once, instead of at each place that reads one.
Computed(a) == a = a

\* The grid g after k generations under the current rules
RECURSIVE Generation(_, _)
Generation(g, k) ==
    IF k = 0 THEN g
    ELSE LET prev == Generation(g, k - 1)
         IN IF Computed(prev)
            THEN TokenGrid(prev, neighbourhood_type, height, width, born, survive)
            ELSE prev

AllSame(g) ==
    \/ \A i \in DOMAIN g : \A j \in DOMAIN g[i] : g[i][j] = 0
    \/ \A i \in DOMAIN g : \A j \in DOMAIN g[i] : g[i][j] = 1

\* The iterations run(n) makes from grid g: up to the first generation k >= 1
\* that is all dead or all alive, and n when there is none among the first n.
Iterations(g, n) ==
    LET ks == {k \in 1..n : AllSame(Generation(g, k))}
    IN IF ks = {} THEN n ELSE SetMin(ks)

Capped == ~niter.none

\* C7: an iteration of run updates the grid, then prints the frame of the new
\* grid, then checks whether to stop; run(niter) makes min(niter, k)
\* iterations, k being the first generation of the run that is all dead or all
\* alive, and stops.
C7_IterationOrderAndCount ==
    err = "none" =>
        /\ pc = "print" => UpdateDone
        /\ pc = "check" =>
               /\ UpdateDone
               /\ out = [kind |-> "frame", text |-> Str(grid, height, width)]
        /\ (pc = "iterate" /\ Capped) => gen = iters - 1 /\ grid = Generation(base, gen)
        /\ (pc \in {"print", "check"} /\ Capped) =>
               gen = iters /\ grid = Generation(base, gen)
        /\ (pc = "stopped" /\ Capped) =>
               /\ iters = Iterations(base, niter.n)
               /\ gen = iters
               /\ grid = Generation(base, iters)

\* run(3) that stopped after its second iteration, whose generation was the
\* first that is all dead or all alive.
C7_Witness ==
    /\ pc = "stopped"
    /\ Capped
    /\ niter.n = 3
    /\ iters = 2
    /\ AllSame(grid)
    /\ ~AllSame(old)
    /\ out.kind = "frame"

\* The grid with a 2 x 2 block centred on it, alone
Block(h, w) ==
    [i \in 0..(h - 1) |-> [j \in 0..(w - 1) |->
        IF /\ i \in {(h - 2) \div 2, ((h - 2) \div 2) + 1}
           /\ j \in {(w - 2) \div 2, ((w - 2) \div 2) + 1}
        THEN 1 ELSE 0]]

\* C8: run() without a cap stops only on a generation that is all dead or all
\* alive, and stops whenever it produces one; started on a 2 x 2 block it
\* keeps running (the grid staying as it is), while run(n) on the same start
\* stops after n iterations; every run with a cap stops.
C8_UncappedStopsOnlyWhenQuiescent ==
    /\ [](( ~Capped /\ pc = "stopped" ) => AllSame(grid))
    /\ [][( ~Capped /\ pc \in Running /\ pc' = "stopped" ) => AllSame(grid)]_vars
    /\ (( ~Capped /\ pc \in {"print", "check"} /\ AllSame(grid) ) ~> pc = "stopped")
    /\ [](( ~Capped /\ pc # "idle" /\ base = Block(height, width) ) =>
            (pc \in Running /\ (pc # "iterate" => grid = base)))
    /\ [](( Capped /\ pc = "stopped" /\ base = Block(height, width) ) =>
            (iters = niter.n /\ grid = base))
    /\ (( Capped /\ pc \in Running ) ~> pc = "stopped")

\* run() without a cap on a 2 x 2 block, still running after MaxGen
\* generations.
C8_Witness ==
    /\ ~Capped
    /\ pc = "check"
    /\ base = Block(height, width)
    /\ grid = base
    /\ gen = MaxGen

\* C9 as claimed: once run has stopped the instance stays stopped.
C9_StoppedIsTerminal == [][pc = "stopped" => pc' = "stopped"]_vars

\* C9: once run has returned, the grid is not advanced without a new call;
\* a new call of run returns the instance to running, with no iteration made
\* yet and the grid as the stopped run left it.
C9_StoppedUntilRunAgain ==
    [][pc = "stopped" =>
          /\ grid' = grid
          /\ \/ pc' = "stopped"
             \/ /\ pc' = "iterate"
                /\ op' = "run"
                /\ calls' = calls + 1
                /\ gen' = 0
                /\ base' = grid]_vars

\* A second run on an instance whose first run has stopped has advanced the
\* grid.
C9_Witness ==
    /\ calls = 3
    /\ pc = "print"
    /\ UpdateDone
    /\ grid # old
    /\ grid # base

(***************************************************************************)
(* The glider                                                              *)
(***************************************************************************)
\* The live cells of g
Live(g) == {p \in (DOMAIN g) \X (0..(Cols(g) - 1)) : g[p[1]][p[2]] = 1}

\* The live cells of g moved by (di, dj) on the torus
Translated(g, di, dj) ==
    {<<(p[1] + di) % Rows(g), (p[2] + dj) % Cols(g)>> : p \in Live(g)}

IsTranslate(g, g0) ==
    \E di \in 0..(Rows(g0) - 1), dj \in 0..(Cols(g0) - 1) :
        Live(g) = Translated(g0, di, dj)

\* The five cells of the glider of add_glider, alone on the grid
GliderCells(h, w) ==
    LET mh == h \div 2
        mw == w \div 2
    IN {<<mh - 1, mw>>, <<mh, mw + 1>>,
        <<mh + 1, mw - 1>>, <<mh + 1, mw>>, <<mh + 1, mw + 1>>}

\* A toroidal grid on which the glider does not meet itself: on one of four
\* rows or columns it does, and the fourth generation is no translate.
LargeEnough == height >= 5 /\ width >= 5

\* C10: under B3/S23 and Moore, the cells add_glider sets on an all-dead, large
\* enough grid (the only seeding here) are the five of the glider, after 4
\* update_grid calls the same cells moved by one cell along each axis, and
\* after 1, 2 or 3 calls no translate of themselves.
C10_GliderPeriodFour ==
    ( /\ err = "none"
      /\ Live(base) # {}
      /\ LargeEnough
      /\ born = <<3>> /\ survive = <<2, 3>> /\ neighbourhood_type = Moore ) =>
        /\ Live(base) = GliderCells(height, width)
        /\ gen = 4 => Live(grid) = Translated(base, 1, 1)
        /\ gen \in 1..3 => ~IsTranslate(grid, base)

\* The glider on the smallest large-enough grid after four updates
C10_Witness ==
    /\ Live(base) = GliderCells(height, width)
    /\ height = 5 /\ width = 5
    /\ UpdateDone
    /\ gen = 4
    /\ Cardinality(Live(grid)) = 5
    /\ grid # base

(***************************************************************************)
(* The all-dead grid and the lone cell under B3/S23                        *)
(***************************************************************************)
Conway == born = <<3>> /\ survive = <<2, 3>>

\* C12: under B3/S23 an all-dead grid is all dead after any number of
\* update_grid calls.
C12_AllDeadIsFixedPoint ==
    (err = "none" /\ Conway /\ Live(base) = {}) =>
        \A i \in 0..(height - 1), j \in 0..(width - 1) : grid[i][j] = 0

\* A grid of 3 x 5 dead cells after three update_grid calls
C12_Witness ==
    /\ UpdateDone
    /\ Conway
    /\ height = 3 /\ width = 5
    /\ base = Zeros(3, 5)
    /\ gen = 3
    /\ grid = Zeros(3, 5)

\* C13: under B3/S23 a grid with exactly one alive cell, wherever it is, is
\* all dead after one update_grid call.
C13_LoneCellDies ==
    (UpdateDone /\ Conway /\ Cardinality(Live(old)) = 1) =>
        \A i \in 0..(height - 1), j \in 0..(width - 1) : grid[i][j] = 0

\* The lone cell was in the corner (0, 0) of a 4 x 3 grid, its neighbours
\* wrapping on both axes.
C13_Witness ==
    /\ UpdateDone
    /\ Conway
    /\ neighbourhood_type = Moore
    /\ height = 4 /\ width = 3
    /\ Live(old) = {<<0, 0>>}
    /\ Live(grid) = {}

(***************************************************************************)
(* Properties of the cells under seeding and updating                      *)
(***************************************************************************)
PresetDone == op \in {"add_glider", "add_r_pentomino"}

\* The writes of the preset that was called last
PresetWrites ==
    IF op = "add_glider" THEN GliderWrites(height, width)
    ELSE RPentominoWrites(height, width)

\* C17: in every state reached from construction by centre_grid calls with a
\* fitting 0/1 array, add_glider, add_r_pentomino and update_grid calls, every
\* cell of the grid is 0 or 1; add_glider and add_r_pentomino raise nothing,
\* write only to coordinates inside the grid and, on an all-dead grid, leave
\* exactly five cells alive.
C17_CellsBinaryPresetsInRange ==
    Constructed =>
        /\ \A i \in DOMAIN grid : \A j \in DOMAIN grid[i] : grid[i][j] \in {0, 1}
        /\ PresetDone =>
               /\ err = "none"
               /\ \A k \in DOMAIN PresetWrites :
                      /\ PresetWrites[k][1] \in 0..(height - 1)
                      /\ PresetWrites[k][2] \in 0..(width - 1)
                      /\ grid[PresetWrites[k][1]][PresetWrites[k][2]] = 1
               /\ Live(old) = {} => Cardinality(Live(grid)) = 5
               /\ Live(old) \subseteq Live(grid)
               /\ Cardinality(Live(grid) \ Live(old)) <= 5

\* add_r_pentomino on the all-dead 3 x 4 grid set five cells, which the
\* smallest grid has room for.
C17_Witness ==
    /\ op = "add_r_pentomino"
    /\ err = "none"
    /\ height = 3 /\ width = 4
    /\ Live(old) = {}
    /\ Live(grid) = {<<0, 2>>, <<1, 2>>, <<2, 2>>, <<0, 3>>, <<1, 1>>}

\* The rows and the columns centre_grid writes of a grid of H x W cells
CentredRows(a) ==
    {((Rows(grid) - Rows(a)) \div 2) + i : i \in 0..(Rows(a) - 1)}

CentredCols(a) ==
    {((Cols(grid) - Cols(a)) \div 2) + j : j \in 0..(Cols(a) - 1)}

\* C18: centre_grid with an array that fits changes only the cells of the
\* centred rectangle: every other cell keeps its value (the grid is not made
\* all dead first), and the rules, the neighbourhood and the dimensions stay.
C18_CentreGridFrame ==
    /\ []((CentreDone /\ Fits(arg)) =>
            /\ err = "none"
            /\ \A i \in 0..(height - 1), j \in 0..(width - 1) :
                   (i \notin CentredRows(arg) \/ j \notin CentredCols(arg)) =>
                       grid[i][j] = old[i][j])
    /\ [][op' = "centre_grid" =>
             /\ born' = born
             /\ survive' = survive
             /\ neighbourhood_type' = neighbourhood_type
             /\ height' = height
             /\ width' = width
             /\ Rows(grid') = Rows(grid)
             /\ Cols(grid') = Cols(grid)]_vars

\* A 1 x 1 array of a dead cell was centred on the R-pentomino: its centre
\* died, its four other cells are as they were.
C18_Witness ==
    /\ CentreDone
    /\ Rows(arg) = 1 /\ Cols(arg) = 1
    /\ Cardinality(Live(old)) = 5
    /\ Cardinality(Live(grid)) = 4
    /\ Live(grid) \subseteq Live(old)

(***************************************************************************)
(* Properties of one pass of update_grid                                   *)
(***************************************************************************)
InPass == pc = "update" /\ err = "none"

\* C16: while update_grid computes its cells the grid is the complete
\* previous generation and every cell computed so far was computed from it;
\* the grid changes only in one step, after the last cell, to the complete new
\* generation.
C16_GridFrozenDuringPass ==
    /\ [](InPass =>
            /\ grid = old
            /\ assigned \in 0..(height * width)
            /\ \A k \in 0..(assigned - 1) :
                   token_grid[k \div width][k % width]
                       = Decide(old[k \div width][k % width],
                                AliveNeighbours(old, neighbourhood_type,
                                                k \div width, k % width),
                                born, survive))
    /\ [][grid' # grid =>
             /\ InPass
             /\ assigned = height * width
             /\ pc' = "idle"
             /\ \A i \in 0..(height - 1), j \in 0..(width - 1) :
                    grid'[i][j] = Decide(grid[i][j],
                                         AliveNeighbours(grid, neighbourhood_type, i, j),
                                         born, survive)]_vars

\* Half-way through a pass over a 3 x 3 grid: the first cell computed differs
\* from the cell of the grid, which is as it was.
C16_Witness ==
    /\ InPass
    /\ height = 3 /\ width = 3
    /\ assigned = 5
    /\ token_grid[0][0] # grid[0][0]
    /\ token_grid[1][1] # grid[1][1]
    /\ grid = old

(***************************************************************************)
(* Properties of the methods that return a value                           *)
(***************************************************************************)
\* C11: all_dead_or_alive returns true exactly when every cell of the grid is
\* dead or every cell is alive, and false for a grid with a dead and an alive
\* cell.
C11_AllDeadOrAliveExact ==
    (op = "all_dead_or_alive" /\ err = "none") =>
        /\ ret.kind = "bool"
        /\ ret.val = AllSame(grid)
        /\ ( /\ \E i \in DOMAIN grid : \E j \in DOMAIN grid[i] : grid[i][j] = 0
             /\ \E i \in DOMAIN grid : \E j \in DOMAIN grid[i] : grid[i][j] = 1 )
               => ret.val = FALSE

\* all_dead_or_alive returned true on a grid of 3 x 4 alive cells
C11_Witness ==
    /\ op = "all_dead_or_alive"
    /\ height = 3 /\ width = 4
    /\ grid = Ones(3, 4)
    /\ ret.kind = "bool"
    /\ ret.val = TRUE

\* The members of S in ascending order
RECURSIVE AscendingSeq(_)
AscendingSeq(S) ==
    IF S = {} THEN <<>> ELSE <<SetMin(S)>> \o AscendingSeq(S \ {SetMin(S)})

\* C14: get_rules returns B, the born values as digits in ascending order, /S
\* and the survive values as digits in ascending order, in whatever order
\* set_rules was given them; B3/S23 for born 3 and survive 2, 3.
C14_NotationSortedAscending ==
    (op = "get_rules" /\ err = "none") =>
        /\ ret.val = <<"B">> \o JoinStr(AscendingSeq(Elements(born)))
                        \o <<"/", "S">> \o JoinStr(AscendingSeq(Elements(survive)))
        /\ (Elements(born) = {3} /\ Elements(survive) = {2, 3}) =>
               ret.val = <<"B", "3", "/", "S", "2", "3">>

\* C15: the frame __str__ returns for a grid of height rows and width columns
\* is a bar of width + 2 border characters, then height lines, each a border
\* character, the width glyphs of the row (filled for an alive cell, a space
\* for a dead one, in column order) and a border character, then the same bar
\* again; and the call leaves the grid as it was.
C15_FrameShapeAndPurity ==
    /\ []( (op = "__str__" /\ err = "none") =>
            LET f == ret.val
            IN /\ Len(f) = height + 2
               /\ Len(f[1]) = width + 2
               /\ \A k \in 1..(width + 2) : f[1][k] = "-"
               /\ f[height + 2] = f[1]
               /\ \A i \in 1..height :
                      /\ Len(f[i + 1]) = width + 2
                      /\ f[i + 1][1] = "|"
                      /\ f[i + 1][width + 2] = "|"
                      /\ \A j \in 1..width :
                             f[i + 1][j + 1] = IF grid[i - 1][j - 1] = 1 THEN "#" ELSE " " )
    /\ [][op' = "__str__" => (grid' = grid /\ height' = height /\ width' = width)]_vars

\* The frame of a 4 x 3 grid with dead and alive cells in its first row
C15_Witness ==
    /\ op = "__str__"
    /\ height = 4 /\ width = 3
    /\ ret.kind = "str"
    /\ Len(ret.val) = 6
    /\ \E j \in 2..4 : ret.val[2][j] = "#"
    /\ \E j \in 2..4 : ret.val[2][j] = " "

(***************************************************************************)
(* Properties of the one-dimensional automaton                             *)
(***************************************************************************)
\* The outcome rule number r gives the cells a, b, c: the bit of r whose
\* number is abc read in binary
RuleEntry(r, a, b, c) == (r \div (2 ^ (4 * a + 2 * b + c))) % 2

\* Cell (i, j) has been through the loops
CellComputed(d, i, j) ==
    /\ i \in 1..(d.niter - 1)
    /\ j \in (d.niter - i)..(d.niter + i)
    /\ d.pc = "done" \/ i < d.i \/ (i = d.i /\ j < d.j)

\* C19: in the one-dimensional automaton, for niter >= 1 and a rule number in
\* 0..255, no lookup fails; row 0 has one alive cell, at column niter; every
\* cell (i, j) with 1 <= i < niter and niter-i <= j <= niter+i that has been
\* computed is the entry of the rule for the cells j-1..j+1 of row i-1, which
\* lie in columns 0..2*niter; and every cell outside the triangle
\* |j - niter| <= i is 0.
C19_TriangleFollowsRule ==
    LET d == one_dimension
        n == d.niter
    IN (d.pc # "none" /\ n >= 1 /\ d.rule_num \in 0..MaxRule) =>
        /\ d.err = "none"
        /\ DOMAIN d.grid = 0..(n - 1)
        /\ \A i \in 0..(n - 1) : DOMAIN d.grid[i] = 0..(2 * n)
        /\ \A j \in 0..(2 * n) : d.grid[0][j] = IF j = n THEN 1 ELSE 0
        /\ \A i \in 1..(n - 1), j \in 0..(2 * n) :
               /\ CellComputed(d, i, j) =>
                      /\ j - 1 >= 0
                      /\ j + 1 <= 2 * n
                      /\ d.grid[i][j] = RuleEntry(d.rule_num, d.grid[i - 1][j - 1],
                                                  d.grid[i - 1][j], d.grid[i - 1][j + 1])
               /\ (j < n - i \/ j > n + i) => d.grid[i][j] = 0

\* Rule 90, the default, run for four iterations: the last row alternates.
C19_Witness ==
    LET d == one_dimension
    IN /\ d.pc = "done"
       /\ d.niter = 4
       /\ d.rule_num = DefaultRule
       /\ d.grid[1] = [j \in 0..8 |-> IF j \in {3, 5} THEN 1 ELSE 0]
       /\ d.grid[2] = [j \in 0..8 |-> IF j \in {2, 6} THEN 1 ELSE 0]
       /\ d.grid[3] = [j \in 0..8 |-> IF j \in {1, 3, 5, 7} THEN 1 ELSE 0]

====
